---- MODULE Spec2Model ----
(***************************************************************************)
(* Minesweeper bot (src/src/index.ts): board generation, bounded cascade   *)
(* reveal, chord / auto-flag resolution, win detection and the JSON        *)
(* round trip between two moves, for one chat session.                     *)
(*                                                                         *)
(* JavaScript arrays are functions over 0..n-1.  The game object is a      *)
(* record; a key that is absent from the object is absent from the         *)
(* record's DOMAIN.  endTime holds either Undefined or Num(t).             *)
(***************************************************************************)
EXTENDS Integers, Sequences, FiniteSets, TLC

\* GAME_CONFIG
ROWS == 8
COLS == 8
MINES == 10
MAX_REVEALS == 50

\* DIRECTIONS, in iteration order
DIRECTIONS ==
    << <<-1, -1>>, <<-1, 0>>, <<-1, 1>>,
       <<0, -1>>, <<0, 1>>,
       <<1, -1>>, <<1, 0>>, <<1, 1>> >>

\* JavaScript values of the endTime property
Undefined == [type |-> "undefined"]
Num(n) == [type |-> "number", value |-> n]

isValidPosition(row, col) ==
    row >= 0 /\ row < ROWS /\ col >= 0 /\ col < COLS

\* the count computed by the inner loop of calculateNumbers for one cell
countMines(board, row, col) ==
    Cardinality({i \in 1..Len(DIRECTIONS) :
        LET newRow == row + DIRECTIONS[i][1]
            newCol == col + DIRECTIONS[i][2]
        IN  isValidPosition(newRow, newCol) /\ board[newRow][newCol] = -1})

\* mine cells are only read and never written, so the in-place double loop
\* yields the same grid as this cell-wise construction
calculateNumbers(board) ==
    [row \in 0..(ROWS - 1) |->
        [col \in 0..(COLS - 1) |->
            IF board[row][col] # -1 THEN countMines(board, row, col)
                                    ELSE board[row][col]]]

\* placeMines with the duplicate test left out: a repeated draw counts
RECURSIVE placeMinesCountsDuplicates(_, _, _)
placeMinesCountsDuplicates(board, minesPlaced, rand) ==
    IF ~(minesPlaced < MINES) THEN board
    ELSE placeMinesCountsDuplicates(
             [board EXCEPT ![Head(rand)[1]][Head(rand)[2]] = -1],
             minesPlaced + 1, Tail(rand))

\* the while loop of createNewGame; rand is the stream of (row, col) pairs
\* that the two Math.floor(Math.random() * n) calls produce
RECURSIVE placeMines(_, _, _)
placeMines(board, minesPlaced, rand) ==
    IF ~(minesPlaced < MINES) THEN board
    ELSE LET row == Head(rand)[1]
             col == Head(rand)[2]
         IN  IF board[row][col] # -1
             THEN placeMines([board EXCEPT ![row][col] = -1],
                             minesPlaced + 1, Tail(rand))
             ELSE placeMines(board, minesPlaced, Tail(rand))

createNewGame(rand, now) ==
    LET board == placeMines([r \in 0..(ROWS - 1) |-> [c \in 0..(COLS - 1) |-> 0]],
                            0, rand)
    IN  [board |-> calculateNumbers(board),
         mask |-> [r \in 0..(ROWS - 1) |-> [c \in 0..(COLS - 1) |-> FALSE]],
         flags |-> [r \in 0..(ROWS - 1) |-> [c \in 0..(COLS - 1) |-> FALSE]],
         gameOver |-> FALSE,
         won |-> FALSE,
         startTime |-> now,
         moves |-> 0,
         endTime |-> Undefined]

(***************************************************************************)
(* revealEmpty.  The recursion is run on an explicit call stack: a frame    *)
(* <<row, col, i>> is an activation of revealEmpty(row, col) whose for loop *)
(* is about to call the neighbour DIRECTIONS[i].  s.ret is maxReveals as    *)
(* threaded through the calls, s.game the game object they mutate.         *)
(***************************************************************************)
\* revealEnter without the test of the flag
revealEnterIgnoresFlags(s, row, col) ==
    IF \/ ~isValidPosition(row, col)
       \/ s.game.mask[row][col]
       \/ s.ret <= 0
    THEN s
    ELSE [game |-> [s.game EXCEPT !.mask[row][col] = TRUE],
          ret |-> s.ret - 1,
          stack |-> IF s.game.board[row][col] = 0
                    THEN Append(s.stack, <<row, col, 1>>)
                    ELSE s.stack]

\* revealEnter without the test of the budget
revealEnterIgnoresBudget(s, row, col) ==
    IF \/ ~isValidPosition(row, col)
       \/ s.game.mask[row][col]
       \/ s.game.flags[row][col]
    THEN s
    ELSE [game |-> [s.game EXCEPT !.mask[row][col] = TRUE],
          ret |-> s.ret - 1,
          stack |-> IF s.game.board[row][col] = 0
                    THEN Append(s.stack, <<row, col, 1>>)
                    ELSE s.stack]

\* entry of a call revealEmpty(game, row, col, s.ret): lines 115-122
revealEnter(s, row, col) ==
    IF \/ ~isValidPosition(row, col)
       \/ s.game.mask[row][col]
       \/ s.game.flags[row][col]
       \/ s.ret <= 0
    THEN s
    ELSE [game |-> [s.game EXCEPT !.mask[row][col] = TRUE],
          ret |-> s.ret - 1,
          stack |-> IF s.game.board[row][col] = 0
                    THEN Append(s.stack, <<row, col, 1>>)
                    ELSE s.stack]

\* one iteration of the for loop of the innermost activation (lines 123-127),
\* or its return when the loop is over (line 130)
revealStep(s) ==
    IF s.stack = << >> THEN s
    ELSE LET n == Len(s.stack)
             top == s.stack[n]
         IN  IF top[3] > Len(DIRECTIONS)
             THEN [s EXCEPT !.stack = SubSeq(s.stack, 1, n - 1)]
             ELSE revealEnter([s EXCEPT !.stack[n][3] = @ + 1],
                              top[1] + DIRECTIONS[top[3]][1],
                              top[2] + DIRECTIONS[top[3]][2])

\* 2^k steps
RECURSIVE revealRun(_, _)
revealRun(s, k) ==
    IF s.stack = << >> THEN s
    ELSE IF k = 0 THEN revealStep(s)
    ELSE revealRun(revealRun(s, k - 1), k - 1)

\* least k with 2^k >= n
RECURSIVE log2(_)
log2(n) == IF n <= 1 THEN 0 ELSE 1 + log2((n + 1) \div 2)

\* a cell is revealed at most once and a revealed zero cell takes one step
\* per direction and one to return, so the stack is empty after at most
\* ROWS * COLS * (Len(DIRECTIONS) + 1) steps
revealEmpty(game, row, col, maxReveals) ==
    LET s == revealRun(revealEnter([game |-> game, ret |-> maxReveals, stack |-> << >>],
                                   row, col),
                       log2(ROWS * COLS * (Len(DIRECTIONS) + 1)))
    IN  [game |-> s.game, ret |-> s.ret]

\* the neighbours of (row, col) in DIRECTIONS order, before any bounds check
neighbours(row, col) ==
    [i \in 1..Len(DIRECTIONS) |->
        <<row + DIRECTIONS[i][1], col + DIRECTIONS[i][2]>>]

\* the in-bounds neighbours that are flagged (flaggedCount / flagCount)
flaggedNeighbours(game, row, col) ==
    SelectSeq(neighbours(row, col),
              LAMBDA p : isValidPosition(p[1], p[2]) /\ game.flags[p[1]][p[2]])

\* the in-bounds neighbours that are neither flagged nor revealed
\* (hiddenPositions / unopenedCells)
hiddenNeighbours(game, row, col) ==
    SelectSeq(neighbours(row, col),
              LAMBDA p : /\ isValidPosition(p[1], p[2])
                         /\ ~game.flags[p[1]][p[2]]
                         /\ ~game.mask[p[1]][p[2]])

\* flagAll that also reveals the cells it flags
RECURSIVE flagAllRevealsToo(_, _)
flagAllRevealsToo(game, positions) ==
    IF positions = << >> THEN game
    ELSE flagAllRevealsToo(
             [game EXCEPT !.flags[Head(positions)[1]][Head(positions)[2]] = TRUE,
                          !.mask[Head(positions)[1]][Head(positions)[2]] = TRUE],
             Tail(positions))

\* for (const [r, c] of hiddenPositions) game.flags[r][c] = true
RECURSIVE flagAll(_, _)
flagAll(game, positions) ==
    IF positions = << >> THEN game
    ELSE flagAll([game EXCEPT !.flags[Head(positions)[1]][Head(positions)[2]] = TRUE],
                 Tail(positions))

\* autoFlag comparing the cell's value itself with the hidden count
autoFlagIgnoresFlagged(game, row, col) ==
    IF ~game.mask[row][col] \/ game.board[row][col] <= 0
    THEN [game |-> game, ret |-> FALSE]
    ELSE LET hiddenPositions == hiddenNeighbours(game, row, col)
             hiddenCount == Len(hiddenPositions)
         IN  IF hiddenCount > 0 /\ game.board[row][col] = hiddenCount
             THEN [game |-> flagAll(game, hiddenPositions), ret |-> TRUE]
             ELSE [game |-> game, ret |-> FALSE]

\* autoFlag that flags the hidden neighbours whatever their number
autoFlagAnyCount(game, row, col) ==
    IF ~game.mask[row][col] \/ game.board[row][col] <= 0
    THEN [game |-> game, ret |-> FALSE]
    ELSE LET hiddenPositions == hiddenNeighbours(game, row, col)
         IN  IF Len(hiddenPositions) > 0
             THEN [game |-> flagAll(game, hiddenPositions), ret |-> TRUE]
             ELSE [game |-> game, ret |-> FALSE]

\* autoFlag that flags when the hidden neighbours are at least the mines left
autoFlagAtLeast(game, row, col) ==
    IF ~game.mask[row][col] \/ game.board[row][col] <= 0
    THEN [game |-> game, ret |-> FALSE]
    ELSE LET flaggedCount == Len(flaggedNeighbours(game, row, col))
             hiddenPositions == hiddenNeighbours(game, row, col)
             hiddenCount == Len(hiddenPositions)
         IN  IF hiddenCount > 0 /\ game.board[row][col] - flaggedCount <= hiddenCount
             THEN [game |-> flagAll(game, hiddenPositions), ret |-> TRUE]
             ELSE [game |-> game, ret |-> FALSE]

autoFlag(game, row, col) ==
    IF ~game.mask[row][col] \/ game.board[row][col] <= 0
    THEN [game |-> game, ret |-> FALSE]
    ELSE LET flaggedCount == Len(flaggedNeighbours(game, row, col))
             hiddenPositions == hiddenNeighbours(game, row, col)
             hiddenCount == Len(hiddenPositions)
         IN  IF hiddenCount > 0 /\ game.board[row][col] - flaggedCount = hiddenCount
             THEN [game |-> flagAll(game, hiddenPositions), ret |-> TRUE]
             ELSE [game |-> game, ret |-> FALSE]

\* revealMines that leaves flagged mines hidden
revealMinesSkipsFlagged(game) ==
    [game EXCEPT !.mask =
        [r \in 0..(ROWS - 1) |->
            [c \in 0..(COLS - 1) |->
                IF game.board[r][c] = -1 /\ ~game.flags[r][c]
                THEN TRUE ELSE game.mask[r][c]]]]

\* revealMines that shows the mines and nothing else
revealMinesOnly(game) ==
    [game EXCEPT !.mask =
        [r \in 0..(ROWS - 1) |->
            [c \in 0..(COLS - 1) |-> game.board[r][c] = -1]]]

\* the "show all mines" double loop
revealMines(game) ==
    [game EXCEPT !.mask =
        [r \in 0..(ROWS - 1) |->
            [c \in 0..(COLS - 1) |->
                IF game.board[r][c] = -1 THEN TRUE ELSE game.mask[r][c]]]]

\* game.gameOver = true; game.endTime = Date.now(); show all mines.
\* The assignment creates the endTime key when the object has none.
setProp(obj, key, val) ==
    [k \in (DOMAIN obj) \cup {key} |-> IF k = key THEN val ELSE obj[k]]

\* mineHit that records no end time
mineHitNoEndTime(game, now) ==
    revealMines([game EXCEPT !.gameOver = TRUE])

mineHit(game, now) ==
    revealMines(setProp([game EXCEPT !.gameOver = TRUE], "endTime", Num(now)))

\* revealAll that stops after the first cell
revealAllFirstOnly(game, cells) ==
    IF cells = << >> THEN game
    ELSE revealEmpty(game, Head(cells)[1], Head(cells)[2], MAX_REVEALS).game

\* for (const [r, c] of unopenedCells) revealEmpty(game, r, c)
RECURSIVE revealAll(_, _)
revealAll(game, cells) ==
    IF cells = << >> THEN game
    ELSE revealAll(revealEmpty(game, Head(cells)[1], Head(cells)[2], MAX_REVEALS).game,
                   Tail(cells))

\* the branch taken on a revealed numbered cell (lines 228-279)
chord(game, row, col, now) ==
    LET flagCount == Len(flaggedNeighbours(game, row, col))
        unopenedCells == hiddenNeighbours(game, row, col)
    IN  IF flagCount = game.board[row][col]
        THEN LET hitMine == \E i \in 1..Len(unopenedCells) :
                                game.board[unopenedCells[i][1]][unopenedCells[i][2]] = -1
             IN  IF hitMine
                 THEN mineHit(game, now)
                 ELSE LET g1 == revealAll(game, unopenedCells)
                      IN  IF Len(unopenedCells) > 0
                          THEN [g1 EXCEPT !.moves = @ + 1]
                          ELSE g1
        ELSE LET a == autoFlag(game, row, col)
             IN  IF a.ret THEN [a.game EXCEPT !.moves = @ + 1] ELSE a.game

\* direct without the mine test: the clicked cell is always revealed
directRevealsMine(game, row, col, now) ==
    revealEmpty([game EXCEPT !.moves = @ + 1], row, col, MAX_REVEALS).game

\* direct counting every cell the cascade reveals as a move
directCountsReveals(game, row, col, now) ==
    IF col \in DOMAIN game.board[row] /\ game.board[row][col] = -1
    THEN mineHit([game EXCEPT !.moves = @ + 1], now)
    ELSE LET r == revealEmpty(game, row, col, MAX_REVEALS)
         IN  [r.game EXCEPT !.moves = @ + (MAX_REVEALS - r.ret)]

\* the branch taken on any other cell that is not flagged (lines 280-297)
direct(game, row, col, now) ==
    LET g1 == [game EXCEPT !.moves = @ + 1]
    IN  IF col \in DOMAIN g1.board[row] /\ g1.board[row][col] = -1
        THEN mineHit(g1, now)
        ELSE revealEmpty(g1, row, col, MAX_REVEALS).game

\* cellMove without the test of the clicked cell's flag
cellMoveIgnoresFlag(game, row, col, now) ==
    IF col \in DOMAIN game.mask[row] /\ game.mask[row][col] /\ game.board[row][col] > 0
    THEN chord(game, row, col, now)
    ELSE direct(game, row, col, now)

\* lines 228-297; row indexes an existing row, col may be any number: an
\* index outside a row reads undefined, which is falsy and equals no number
cellMove(game, row, col, now) ==
    LET inRow == col \in DOMAIN game.mask[row]
    IN  IF inRow /\ game.mask[row][col] /\ game.board[row][col] > 0
        THEN chord(game, row, col, now)
        ELSE IF ~(inRow /\ game.flags[row][col])
             THEN direct(game, row, col, now)
             ELSE game

\* lines 299-319
correctFlags(game) ==
    Cardinality({p \in (0..(ROWS - 1)) \X (0..(COLS - 1)) :
                    game.flags[p[1]][p[2]] /\ game.board[p[1]][p[2]] = -1})

totalFlags(game) ==
    Cardinality({p \in (0..(ROWS - 1)) \X (0..(COLS - 1)) : game.flags[p[1]][p[2]]})

\* winCheck that also wants every safe cell revealed
winCheckNeedsAllRevealed(game, now) ==
    IF ~game.gameOver
    THEN IF /\ correctFlags(game) = MINES
            /\ totalFlags(game) = MINES
            /\ \A r \in 0..(ROWS - 1), c \in 0..(COLS - 1) :
                   game.board[r][c] = -1 \/ game.mask[r][c]
         THEN setProp([game EXCEPT !.gameOver = TRUE, !.won = TRUE],
                      "endTime", Num(now))
         ELSE game
    ELSE game

winCheck(game, now) ==
    IF ~game.gameOver
    THEN IF correctFlags(game) = MINES /\ totalFlags(game) = MINES
         THEN setProp([game EXCEPT !.gameOver = TRUE, !.won = TRUE],
                      "endTime", Num(now))
         ELSE game
    ELSE game

(***************************************************************************)
(* JSON.stringify / JSON.parse of the game object.  The text is the        *)
(* sequence of its members <<key, value text>>; an array's text is the     *)
(* sequence of its elements' texts.                                        *)
(***************************************************************************)
\* keys in insertion order: the object literal of createNewGame; a later
\* assignment of endTime to a parsed object appends it last
GameKeys ==
    <<"board", "mask", "flags", "gameOver", "won", "startTime", "moves", "endTime">>

GridKeys == {"board", "mask", "flags"}

arrayText(a) == [i \in 1..Cardinality(DOMAIN a) |-> a[i - 1]]
gridText(g) == arrayText([r \in DOMAIN g |-> arrayText(g[r])])

\* textArray that keeps the text's indices 1..n
textArrayOneBased(t) == [i \in 1..Len(t) |-> t[i]]

textArray(t) == [i \in 0..(Len(t) - 1) |-> t[i + 1]]
textGrid(t) == textArray([i \in 1..Len(t) |-> textArray(t[i])])

\* a member whose value is undefined is omitted
JSONstringify(obj) ==
    LET emitted == SelectSeq(GameKeys,
                       LAMBDA k : /\ k \in DOMAIN obj
                                  /\ ~(k = "endTime" /\ obj[k] = Undefined))
    IN  [i \in 1..Len(emitted) |->
            LET k == emitted[i]
            IN  <<k, IF k \in GridKeys THEN gridText(obj[k])
                     ELSE IF k = "endTime" THEN obj[k].value
                     ELSE obj[k]>>]

JSONparse(text) ==
    [k \in {text[i][1] : i \in 1..Len(text)} |->
        LET v == text[CHOOSE i \in 1..Len(text) : text[i][1] = k][2]
        IN  IF k \in GridKeys THEN textGrid(v)
            ELSE IF k = "endTime" THEN Num(v)
            ELSE v]

\* reading a property: an absent key reads undefined
getProp(obj, key) == IF key \in DOMAIN obj THEN obj[key] ELSE Undefined

(***************************************************************************)
(* handleRequest for one chat id.                                          *)
(***************************************************************************)
\* MinesweeperStore.get returns null for a missing key
Absent == << >>
NoGame == [none |-> TRUE]

Response(text, put, del) == [text |-> text, put |-> put, del |-> del]

\* '/start' or '/newgame' (lines 192-210)
handleStart(rand, now) ==
    LET game == createNewGame(rand, now)
    IN  [store |-> JSONstringify(game), loaded |-> NoGame, game |-> game,
         resp |-> Response("OK", TRUE, FALSE)]

\* the answer after the put that never calls delete
cellResponseNoDelete(g) == Response("OK", TRUE, FALSE)

\* lines 321-341: the handler puts the game, deletes the key when the game
\* is over, and answers OK
cellResponse(g) == Response("OK", TRUE, g.gameOver)

\* a cell callback (lines 212-341), from the text the get returned to the
\* game the handler holds and the store calls it makes; the TypeError thrown
\* by game.mask[row][col] when game.mask[row] is undefined is caught by
\* fetch, which answers 'Error processing request'
handleCell(gameStr, row, col, now) ==
    IF gameStr = Absent
    THEN [loaded |-> NoGame, game |-> NoGame,
          resp |-> Response("OK", FALSE, FALSE)]
    ELSE LET game == JSONparse(gameStr)
         IN  IF game.gameOver
             THEN [loaded |-> game, game |-> game,
                   resp |-> Response("OK", FALSE, FALSE)]
             ELSE IF row \notin DOMAIN game.mask
             THEN [loaded |-> game, game |-> game,
                   resp |-> Response("Error processing request", FALSE, FALSE)]
             ELSE LET g == winCheck(cellMove(game, row, col, now), now)
                  IN  [loaded |-> game, game |-> g, resp |-> cellResponse(g)]

\* put that refuses to write when the key no longer holds what was read
putIfUnchanged(kv, gameStr, g) == IF kv = gameStr THEN JSONstringify(g) ELSE kv

\* put that refuses to write when the key has been deleted
putIfPresent(kv, gameStr, g) == IF kv = Absent THEN Absent ELSE JSONstringify(g)

\* MinesweeperStore.put(key, JSON.stringify(game)): the new value of the key,
\* whatever it holds now (kv) and whatever the handler read (gameStr)
putResult(kv, gameStr, g) == JSONstringify(g)

(***************************************************************************)
(* One session.  An invocation of the handler runs up to its next await on *)
(* MinesweeperStore in one step; invocations of the cell handler overlap.  *)
(***************************************************************************)
VARIABLES
    store,   \* value of the key game:<chatId> in MinesweeperStore, or Absent
    req,     \* the last request whose synchronous part ran
    loaded,  \* the game that request parsed from the text it read, or NoGame
    game,    \* the handler's game object when that part completed
    resp,    \* its response text and whether it calls put / delete
    ended,   \* a cell action deleted the key and no new game was started since
    ret,     \* return value of the last direct call of revealEmpty
    handlers, \* the cell handlers in flight: position and local variables
    log      \* the storage operations of the handlers, in order

vars == <<store, req, loaded, game, resp, ended, ret, handlers, log>>

\* two invocations of the handler may run at once
Handlers == {"a", "b"}

\* an invocation that has not received its request yet
Idle == [pc |-> "idle", row |-> 0, col |-> 0, gameStr |-> Absent]

\* bounds of the model
MaxTime == 2
MaxMoves == 3
MaxPlaySeed == 1
MaxInputSeed == 0
MaxSeed == 5
MaxBudget == 2

\* values Date.now() may return
Times == 1..MaxTime

\* callback data c_<row>_<col>: any two integers, in or just outside the grid
RowInputs == (-1)..ROWS
ColInputs == (-1)..COLS

\* outcomes of the successive Math.random() draws, as (row, col) pairs
Draws ==
    << <<0, 0>>, <<0, 1>>, <<0, 1>>, <<0, 2>>, <<1, 0>>, <<2, 0>>,
       <<7, 7>>, <<7, 6>>, <<7, 5>>, <<6, 7>>, <<5, 7>>, <<3, 3>>,
       <<0, 5>>, <<7, 2>>, <<4, 6>>, <<2, 5>>, <<5, 1>>, <<7, 6>>,
       <<1, 3>>, <<6, 4>>, <<3, 0>>, <<0, 7>>, <<4, 4>>, <<2, 2>>,
       <<5, 5>>, <<7, 0>>, <<1, 6>>, <<3, 6>>, <<6, 2>>, <<0, 3>> >>

\* the draws a game started at offset seed of the stream consumes
randFrom(seed) == SubSeq(Draws, seed + 1, Len(Draws))

\* cells the player clicks in the play specification: a zero cell, numbered
\* cells next to mines, mine cells, and callbacks outside the grid
ClickCells ==
    { <<0, 4>>, <<1, 1>>, <<6, 6>>, <<4, 6>>, <<1, 2>>, <<2, 3>>, <<2, 4>>,
      <<0, 0>>, <<3, 3>>,
      <<-1, 0>>, <<ROWS, 3>>, <<0, -1>>, <<3, COLS>> }

Init ==
    /\ store = Absent
    /\ req = [kind |-> "none"]
    /\ loaded = NoGame
    /\ game = NoGame
    /\ resp = Response("", FALSE, FALSE)
    /\ ended = FALSE
    /\ ret = 0
    /\ handlers = [h \in Handlers |-> Idle]
    /\ log = << >>

\* lines 192-210: createNewGame and the put of its text; no await comes
\* before the put
Start(rand, now) ==
    \E h \in {handleStart(rand, now)} :
        /\ store' = h.store
        /\ req' = [kind |-> "start"]
        /\ loaded' = h.loaded
        /\ game' = h.game
        /\ resp' = h.resp
        /\ ended' = FALSE
        /\ UNCHANGED <<ret, handlers, log>>

\* lines 212-216: the callback arrives and the handler reads the key
Get(h, row, col) ==
    /\ handlers[h].pc = "idle"
    /\ handlers' = [handlers EXCEPT ![h] =
            [pc |-> "read", row |-> row, col |-> col, gameStr |-> store]]
    /\ UNCHANGED <<store, req, loaded, game, resp, ended, ret>>

\* lines 217-321: the early returns, the move on the state that was read,
\* and the put of its result
Move(h, now) ==
    /\ handlers[h].pc = "read"
    /\ \E r \in {handleCell(handlers[h].gameStr, handlers[h].row,
                            handlers[h].col, now)} :
        /\ store' = IF r.resp.put
                    THEN putResult(store, handlers[h].gameStr, r.game)
                    ELSE store
        /\ req' = [kind |-> "cell", row |-> handlers[h].row,
                   col |-> handlers[h].col]
        /\ loaded' = r.loaded
        /\ game' = r.game
        /\ resp' = r.resp
        /\ handlers' = [handlers EXCEPT ![h] =
                IF r.resp.del THEN [Idle EXCEPT !.pc = "del"] ELSE Idle]
    /\ UNCHANGED <<ended, ret>>

\* lines 324-327: the game is over, the key is deleted
Delete(h) ==
    /\ handlers[h].pc = "del"
    /\ store' = Absent
    /\ ended' = TRUE
    /\ handlers' = [handlers EXCEPT ![h] = Idle]
    /\ UNCHANGED <<req, loaded, game, resp, ret>>

\* the moves member of the stored text
storedMoves == store[CHOOSE i \in 1..Len(store) : store[i][1] = "moves"][2]

\* the moves counter is capped at MaxMoves
MovesLeft(n) == IF store = Absent THEN TRUE ELSE storedMoves < n

AllIdle == \A h \in Handlers : handlers[h].pc = "idle"

NewGame == \E seed \in 0..MaxPlaySeed, now \in Times : Start(randFrom(seed), now)

\* the cell of the last request
ClickedCell == <<req.row, req.col>>

\* a storage operation of handler h for the click on cell, with the text read
\* or put
LogEntry(h, op, cell, text) == [h |-> h, op |-> op, cell |-> cell, text |-> text]

\* cells clicked when invocations overlap: a zero cell, the numbered cells in
\* the corners of the two mine blocks, a numbered cell next to the second
\* block, and a mine or numbered cell
RaceCells == { <<0, 4>>, <<1, 1>>, <<6, 6>>, <<4, 6>>, <<0, 0>> }

\* one game is started, before any cell request
PlayStart == log = << >> /\ NewGame

\* a callback arrives, whatever the handlers in flight; the game receives
\* MaxMoves requests at most
PlayGet ==
    /\ Len(log) < MaxMoves
    /\ \E h \in Handlers, cell \in RaceCells :
        /\ Get(h, cell[1], cell[2])
        /\ log' = Append(log, LogEntry(h, "get", cell, store))

CellMove == (\E h \in Handlers, now \in Times : Move(h, now)) /\ UNCHANGED log

CellDelete == (\E h \in Handlers : Delete(h)) /\ UNCHANGED log

Next == PlayStart \/ PlayGet \/ CellMove \/ CellDelete

Spec == Init /\ [][Next]_vars

(***************************************************************************)
(* The same session with its requests handled one at a time: a request is  *)
(* received only when no handler is in flight.  Games are started again    *)
(* and again, and any cell of ClickCells is clicked.                       *)
(***************************************************************************)
SeqStart == AllIdle /\ NewGame

SeqGet ==
    /\ AllIdle
    /\ MovesLeft(MaxMoves)
    /\ \E h \in Handlers, cell \in ClickCells : Get(h, cell[1], cell[2])
    /\ UNCHANGED log

NextSeq == SeqStart \/ SeqGet \/ CellMove \/ CellDelete

SpecSeq == Init /\ [][NextSeq]_vars

(***************************************************************************)
(* Board generation and the first click of a game, for every callback.     *)
(***************************************************************************)
Generate ==
    /\ AllIdle
    /\ \E seed \in 0..MaxSeed, now \in Times : Start(randFrom(seed), now)

FirstClick ==
    /\ AllIdle
    /\ store # Absent
    /\ MovesLeft(1)
    /\ \E row \in RowInputs, col \in ColInputs : Get("a", row, col)
    /\ UNCHANGED log

NextNew == Generate \/ FirstClick \/ CellMove \/ CellDelete

SpecNew == Init /\ [][NextNew]_vars

(***************************************************************************)
(* The cell handler and revealEmpty applied once to stored games that need  *)
(* not come from play: any cells may be revealed or flagged, rightly or     *)
(* wrongly.                                                                 *)
(***************************************************************************)
\* cells revealed in the input games: the first n of this list
MaskSeq ==
    << <<3, 0>>, <<3, 1>>, <<4, 0>>, <<4, 1>>, <<2, 1>>,
       <<1, 1>>, <<1, 2>>, <<2, 2>>, <<3, 2>> >>

\* cells flagged in the input games: any subset of these (two mines and a
\* numbered cell)
FlagCells == { <<2, 0>>, <<2, 1>>, <<7, 7>> }

setCells(grid, cells) ==
    [r \in DOMAIN grid |-> [c \in DOMAIN grid[r] |-> grid[r][c] \/ <<r, c>> \in cells]]

\* a flagged cell is a hidden cell
inputGame(seed, n, F) ==
    [createNewGame(randFrom(seed), 1) EXCEPT
        !.mask = setCells(@, {MaskSeq[i] : i \in 1..n}),
        !.flags = setCells(@, F \ {MaskSeq[i] : i \in 1..n})]

AnyGames ==
    { inputGame(seed, n, F) :
        seed \in 0..MaxInputSeed, n \in 0..Len(MaskSeq), F \in SUBSET FlagCells }

\* budgets passed to revealEmpty
Budgets == ((-1)..MaxBudget) \cup {MAX_REVEALS}

InitCell ==
    /\ \E g \in AnyGames : store = JSONstringify(g)
    /\ req = [kind |-> "none"]
    /\ loaded = NoGame
    /\ game = NoGame
    /\ resp = Response("", FALSE, FALSE)
    /\ ended = FALSE
    /\ ret = 0
    /\ handlers = [h \in Handlers |-> Idle]
    /\ log = << >>

\* one callback, on any cell
CellCall ==
    /\ req.kind = "none"
    /\ AllIdle
    /\ \E row \in RowInputs, col \in ColInputs : Get("a", row, col)
    /\ UNCHANGED log

NextCell == CellCall \/ CellMove \/ CellDelete

SpecCell == InitCell /\ [][NextCell]_vars

InitReveal ==
    /\ store = Absent
    /\ req = [kind |-> "none"]
    /\ \E g \in AnyGames : loaded = g /\ game = g
    /\ resp = Response("", FALSE, FALSE)
    /\ ended = FALSE
    /\ ret = 0
    /\ handlers = [h \in Handlers |-> Idle]
    /\ log = << >>

RevealCall ==
    /\ req.kind = "none"
    /\ \E row \in RowInputs, col \in ColInputs, b \in Budgets :
        \E r \in {revealEmpty(loaded, row, col, b)} :
            /\ game' = r.game
            /\ ret' = r.ret
            /\ req' = [kind |-> "reveal", row |-> row, col |-> col, budget |-> b]
            /\ UNCHANGED <<store, loaded, resp, ended, handlers, log>>

SpecReveal == InitReveal /\ [][RevealCall]_vars

(***************************************************************************)
(* Two overlapping invocations of the cell handler on one game, each       *)
(* handling one request, with the order of their storage operations        *)
(* recorded in log.                                                        *)
(***************************************************************************)
\* cells clicked in this specification: a mine or numbered cell, a zero
\* cell, a numbered cell, and a callback outside the grid
ConcCells == { <<0, 0>>, <<0, 4>>, <<6, 6>>, <<ROWS, 3>> }

\* a game is started before any handler has run its move, also while the
\* first request is in flight
ConcStart == Len(log) <= 1 /\ req.kind # "cell" /\ NewGame

ConcGet ==
    \E h \in Handlers, cell \in ConcCells :
        /\ \A i \in 1..Len(log) : log[i].h # h
        /\ Get(h, cell[1], cell[2])
        /\ log' = Append(log, LogEntry(h, "get", cell, store))

ConcMove ==
    \E h \in Handlers, now \in Times :
        /\ Move(h, now)
        /\ log' = Append(log, IF resp'.put
                              THEN LogEntry(h, "put", ClickedCell', JSONstringify(game'))
                              ELSE LogEntry(h, "return", ClickedCell', Absent))

ConcDelete ==
    \E h \in Handlers :
        /\ Delete(h)
        /\ log' = Append(log, LogEntry(h, "delete", <<0, 0>>, Absent))

NextConc == ConcStart \/ ConcGet \/ ConcMove \/ ConcDelete

SpecConc == Init /\ [][NextConc]_vars

(***************************************************************************)
(* Properties.                                                             *)
(***************************************************************************)
Cells == (0..(ROWS - 1)) \X (0..(COLS - 1))

at(grid, p) == grid[p[1]][p[2]]

Adjacent(p, q) ==
    /\ p # q
    /\ p[1] - q[1] \in {-1, 0, 1}
    /\ p[2] - q[2] \in {-1, 0, 1}

Around(p) == {q \in Cells : Adjacent(p, q)}

Revealed(g) == {p \in Cells : at(g.mask, p)}
Flagged(g) == {p \in Cells : at(g.flags, p)}
MineCells(g) == {p \in Cells : at(g.board, p) = -1}

InProgress(g) == g # NoGame /\ ~g.gameOver

\* the last request was a cell action on a cell of the grid, and it found a
\* game in progress
CellActionOnGame ==
    /\ req.kind = "cell"
    /\ InProgress(loaded)
CellActionInGrid ==
    /\ CellActionOnGame
    /\ ClickedCell \in Cells

\* the step in which handler h runs from its get to its put or return
MoveStepOf(h) == handlers[h].pc = "read" /\ handlers'[h].pc # "read"

MoveStep == \E h \in Handlers : MoveStepOf(h)

\* the key still holds the text h read: no other write came in between
ReadCurrent(h) == handlers[h].gameStr = store

\* C1: every generated board has exactly MINES cells equal to -1, and every
\* other cell holds the number of mine cells among its in-bounds neighbours.
C1_BoardWellFormed ==
    req.kind = "start" =>
        /\ Cardinality(MineCells(game)) = MINES
        /\ \A p \in Cells :
            at(game.board, p) # -1 =>
                at(game.board, p) = Cardinality(Around(p) \cap MineCells(game))

\* a board generated from draws with a rejected duplicate: the corner block
\* of five mines, with 5 next to it and 1 on the top edge
C1_Witness ==
    /\ req.kind = "start"
    /\ {<<0, 0>>, <<0, 1>>, <<0, 2>>, <<1, 0>>, <<2, 0>>} \subseteq MineCells(game)
    /\ game.board[1][1] = 5
    /\ game.board[0][3] = 1

\* C2: one call of revealEmpty never reveals a flagged cell, newly reveals at
\* most max(b, 0) cells, and returns b minus the number it newly revealed.
NewlyRevealed == Revealed(game) \ Revealed(loaded)

C2_RevealBudget ==
    req.kind = "reveal" =>
        /\ \A p \in Flagged(loaded) : at(game.mask, p) = at(loaded.mask, p)
        /\ Cardinality(NewlyRevealed) <= (IF req.budget > 0 THEN req.budget ELSE 0)
        /\ ret = req.budget - Cardinality(NewlyRevealed)

\* a cascade that uses up a budget of MAX_REVEALS and passes a flagged cell
C2_Witness ==
    /\ req.kind = "reveal"
    /\ req.budget = MAX_REVEALS
    /\ ret = 0
    /\ \E p \in Flagged(loaded), q \in NewlyRevealed :
        Adjacent(p, q) /\ at(game.board, q) = 0

\* C3: a cell action that hits a mine, directly or through a chord, ends the
\* game as lost with endTime set and every mine cell revealed.
FlagsAround(g, p) == Cardinality(Around(p) \cap Flagged(g))
HiddenAround(g, p) == (Around(p) \ Flagged(g)) \ Revealed(g)

DirectHit ==
    /\ CellActionInGrid
    /\ ClickedCell \notin Revealed(loaded)
    /\ ClickedCell \notin Flagged(loaded)
    /\ at(loaded.board, ClickedCell) = -1

ChordClick ==
    /\ CellActionInGrid
    /\ ClickedCell \in Revealed(loaded)
    /\ at(loaded.board, ClickedCell) > 0

ChordHit ==
    /\ ChordClick
    /\ FlagsAround(loaded, ClickedCell) = at(loaded.board, ClickedCell)
    /\ HiddenAround(loaded, ClickedCell) \cap MineCells(loaded) # {}

C3_MineHitEndsGame ==
    (DirectHit \/ ChordHit) =>
        /\ game.gameOver
        /\ ~game.won
        /\ getProp(game, "endTime") \in {Num(t) : t \in Times}
        /\ MineCells(game) \subseteq Revealed(game)

\* a chord hit while another mine is flagged: that mine is revealed too
C3_Witness ==
    /\ ChordHit
    /\ game.gameOver
    /\ Flagged(loaded) \cap MineCells(loaded) # {}
    /\ MineCells(game) \subseteq Revealed(game)

\* C4: in play, a chord click with as many flags around as the cell's value
\* and no mine among the hidden unflagged neighbours reveals every one of
\* those neighbours, changes no flag, leaves the game in progress and counts
\* one move exactly when there was such a neighbour.
SafeChord ==
    /\ ChordClick
    /\ FlagsAround(loaded, ClickedCell) = at(loaded.board, ClickedCell)
    /\ HiddenAround(loaded, ClickedCell) \cap MineCells(loaded) = {}

C4_SafeChordReveals ==
    SafeChord =>
        /\ HiddenAround(loaded, ClickedCell) \subseteq Revealed(game)
        /\ game.flags = loaded.flags
        /\ ~game.gameOver
        /\ game.moves = loaded.moves +
               (IF HiddenAround(loaded, ClickedCell) # {} THEN 1 ELSE 0)

\* a chord that reveals at least two hidden neighbours
C4_Witness ==
    /\ SafeChord
    /\ Cardinality(HiddenAround(loaded, ClickedCell)) >= 2
    /\ game.moves = loaded.moves + 1
    /\ HiddenAround(loaded, ClickedCell) \subseteq Revealed(game)

\* C5: a chord click with a flag count different from the cell's value flags
\* every hidden unflagged neighbour and counts one move when their number is
\* positive and equals value minus flag count, leaving the mask and the
\* flags of all other cells unchanged; otherwise no flag changes.
FlagChord ==
    /\ ChordClick
    /\ FlagsAround(loaded, ClickedCell) # at(loaded.board, ClickedCell)

FlagChordMatches ==
    /\ HiddenAround(loaded, ClickedCell) # {}
    /\ Cardinality(HiddenAround(loaded, ClickedCell)) =
           at(loaded.board, ClickedCell) - FlagsAround(loaded, ClickedCell)

C5_AutoFlag ==
    FlagChord =>
        IF FlagChordMatches
        THEN /\ HiddenAround(loaded, ClickedCell) \subseteq Flagged(game)
             /\ game.moves = loaded.moves + 1
             /\ game.mask = loaded.mask
             /\ \A p \in Cells \ HiddenAround(loaded, ClickedCell) :
                    at(game.flags, p) = at(loaded.flags, p)
        ELSE game.flags = loaded.flags

\* the heuristic flags a neighbour while another neighbour is already flagged
C5_Witness ==
    /\ FlagChord
    /\ FlagChordMatches
    /\ FlagsAround(loaded, ClickedCell) > 0
    /\ HiddenAround(loaded, ClickedCell) \subseteq Flagged(game)
    /\ game.moves = loaded.moves + 1

\* C6: after a cell action on a game in play, if exactly the mine cells are
\* flagged then the game is won and over, however many safe cells are hidden.
ExactlyMinesFlagged(g) == Flagged(g) = MineCells(g)

C6_AllMinesFlaggedWins ==
    (CellActionOnGame /\ ExactlyMinesFlagged(game)) =>
        (game.won /\ game.gameOver)

\* a win with safe cells still hidden
C6_Witness ==
    /\ CellActionOnGame
    /\ ExactlyMinesFlagged(game)
    /\ game.won
    /\ (Cells \ MineCells(game)) \ Revealed(game) # {}

\* C7: stringify then parse gives back every field of a reachable game state
\* as it reads in the state itself (an absent endTime reads undefined).
RoundTrip(g) == JSONparse(JSONstringify(g))

C7_RoundTrip ==
    game # NoGame =>
        \A i \in 1..Len(GameKeys) :
            getProp(RoundTrip(game), GameKeys[i]) = getProp(game, GameKeys[i])

\* a finished game: endTime is set, cells are revealed and flagged
C7_Witness ==
    /\ game # NoGame
    /\ game.gameOver
    /\ getProp(RoundTrip(game), "endTime") \in {Num(t) : t \in Times}
    /\ Flagged(game) # {}
    /\ game.moves > 1
    /\ RoundTrip(game).flags = game.flags

\* C8 (as amended): a first click on a zero cell of a fresh game reveals
\* only cells of the clicked cell's region of zero cells and the cells next to
\* that region, min(size of that set, MAX_REVEALS) of them - the whole set
\* when it has at most MAX_REVEALS cells - and reveals no mine.
RECURSIVE ZeroRegion(_, _)
ZeroRegion(board, S) ==
    LET T == S \cup {q \in Cells : at(board, q) = 0 /\ \E p \in S : Adjacent(p, q)}
    IN  IF T = S THEN S ELSE ZeroRegion(board, T)

RegionWithBorder(board, p) ==
    LET Z == ZeroRegion(board, {p})
    IN  Z \cup {q \in Cells : \E z \in Z : Adjacent(z, q)}

FirstClickOnZero ==
    /\ CellActionInGrid
    /\ loaded.moves = 0
    /\ Revealed(loaded) = {}
    /\ Flagged(loaded) = {}
    /\ at(loaded.board, ClickedCell) = 0

C8_FirstClickCascadeBounded ==
    FirstClickOnZero =>
        LET R == RegionWithBorder(loaded.board, ClickedCell)
        IN  /\ Revealed(game) \subseteq R
            /\ Cardinality(Revealed(game)) =
                   (IF Cardinality(R) <= MAX_REVEALS THEN Cardinality(R)
                                                     ELSE MAX_REVEALS)
            /\ Revealed(game) \cap MineCells(game) = {}

\* the region and its border have more than MAX_REVEALS cells
C8_Witness ==
    /\ FirstClickOnZero
    /\ Cardinality(RegionWithBorder(loaded.board, ClickedCell)) > MAX_REVEALS
    /\ Cardinality(Revealed(game)) = MAX_REVEALS

\* C8 as stated: the revealed set is exactly the region and its border.
C8_FirstClickCascadeExact ==
    FirstClickOnZero =>
        /\ Revealed(game) = RegionWithBorder(loaded.board, ClickedCell)
        /\ Revealed(game) \cap MineCells(game) = {}

\* C9 as stated: a cell action outside the grid answers without an error and
\* leaves the game as it was, moves included.
OutsideGrid ==
    /\ CellActionOnGame
    /\ ClickedCell \notin Cells

C9_OutOfRangeIsNoOp ==
    OutsideGrid =>
        /\ resp.text = "OK"
        /\ \A i \in 1..Len(GameKeys) :
            getProp(game, GameKeys[i]) = getProp(loaded, GameKeys[i])

\* C10: with requests handled one at a time, when the action that ends the
\* game has completed the store holds no record, and from then on, until a
\* new game is started, a cell action changes nothing and writes nothing.
GameEndedNow ==
    /\ req.kind = "cell"
    /\ game # NoGame
    /\ game.gameOver

C10_EndedGameIsEvicted ==
    /\ []((GameEndedNow /\ AllIdle) => (store = Absent /\ ended))
    /\ [][(ended /\ MoveStep) =>
            /\ store' = Absent
            /\ loaded' = NoGame
            /\ game' = NoGame
            /\ ~resp'.put
            /\ ~resp'.del
            /\ ended']_vars

\* a click after the game has ended
C10_Witness ==
    /\ ended
    /\ AllIdle
    /\ req.kind = "cell"
    /\ game = NoGame
    /\ store = Absent
    /\ ~resp.put

\* two texts of the same game: same board, same start time
SameGame(t1, t2) ==
    /\ JSONparse(t1).board = JSONparse(t2).board
    /\ JSONparse(t1).startTime = JSONparse(t2).startTime

\* a cell action replaces the stored text of a game by another text of it
Rewrite ==
    /\ MoveStep
    /\ resp'.put
    /\ store # Absent
    /\ SameGame(store, store')

\* C11 (as amended): every cell revealed in the state an action read is
\* revealed in the state it leaves and stores; so the stored mask only grows
\* over actions that each read what the action before stored, while an
\* action that read an older state stores a mask that may lack cells stored
\* as revealed before.
C11_MaskMonotoneFromRead ==
    /\ [](CellActionOnGame => Revealed(loaded) \subseteq Revealed(game))
    /\ [][(MoveStep /\ resp'.put) => store' = JSONstringify(game')]_vars
    /\ [][\A h \in Handlers :
            (MoveStepOf(h) /\ store # Absent /\ ReadCurrent(h)) =>
                Revealed(JSONparse(store)) \subseteq Revealed(game')]_vars

\* a mine hit after cells were revealed: the disclosure keeps them revealed
C11_Witness ==
    /\ DirectHit
    /\ game.gameOver
    /\ Cardinality(Revealed(loaded)) >= 2
    /\ Revealed(loaded) \subseteq Revealed(game)
    /\ Revealed(game) # Revealed(loaded)

\* C11 as stated: over the cell actions of a game a cell stored as revealed
\* stays revealed in every text stored later.
C11_MaskMonotone ==
    [][Rewrite =>
        Revealed(JSONparse(store)) \subseteq Revealed(JSONparse(store'))]_vars

\* C12: while the game is in progress no cell is both flagged and revealed;
\* an action flags only cells hidden in the state it loaded and, unless it
\* ends the game, reveals no cell flagged in that state; a cell is flagged
\* and revealed together only in a lost game, and then it is a mine.
FlaggedAndRevealed(g) == Flagged(g) \cap Revealed(g)

C12_NoFlaggedRevealed ==
    game # NoGame =>
        /\ ~game.gameOver => FlaggedAndRevealed(game) = {}
        /\ FlaggedAndRevealed(game) # {} =>
            /\ game.gameOver
            /\ ~game.won
            /\ FlaggedAndRevealed(game) \subseteq MineCells(game)
        /\ CellActionOnGame =>
            /\ (Flagged(game) \ Flagged(loaded)) \cap Revealed(loaded) = {}
            /\ ~game.gameOver => Flagged(loaded) \cap Revealed(game) = {}

\* a reveal right next to a flagged cell, the game still in progress
C12_Witness ==
    /\ CellActionOnGame
    /\ ~game.gameOver
    /\ \E p \in Flagged(loaded), q \in NewlyRevealed : Adjacent(p, q)
    /\ FlaggedAndRevealed(game) = {}

\* C13: endTime is present exactly when gameOver is true, in the handler's
\* game and in the stored state; the action that ends a game sets it, the
\* state it loaded having none; and won implies gameOver.
HasEndTime(g) == getProp(g, "endTime") # Undefined

EndTimeIffGameOver(g) ==
    /\ HasEndTime(g) <=> g.gameOver
    /\ g.won => g.gameOver

C13_EndTimeIffGameOver ==
    /\ game # NoGame => EndTimeIffGameOver(game)
    /\ store # Absent => EndTimeIffGameOver(JSONparse(store))
    /\ (CellActionOnGame /\ game.gameOver) =>
        /\ ~HasEndTime(loaded)
        /\ getProp(game, "endTime") \in {Num(t) : t \in Times}

\* a game lost on its second move or later: endTime appears with gameOver
C13_Witness ==
    /\ DirectHit
    /\ loaded.moves >= 1
    /\ ~HasEndTime(loaded)
    /\ game.gameOver
    /\ HasEndTime(game)

\* C14: while the game is in progress no mine cell is revealed, whatever
\* clicks, chords and cascades came before; a game with a revealed mine is
\* a lost game, left by the mine-hit action itself or read as such from the
\* store by a handler that then returns.
RevealedMines(g) == Revealed(g) \cap MineCells(g)

C14_NoMineRevealedInPlay ==
    /\ game # NoGame =>
        /\ ~game.gameOver => RevealedMines(game) = {}
        /\ RevealedMines(game) # {} =>
            /\ game.gameOver
            /\ ~game.won
            /\ \/ loaded = game
               \/ (DirectHit \/ ChordHit) /\ RevealedMines(loaded) = {}
    /\ (store # Absent /\ ~JSONparse(store).gameOver) =>
            RevealedMines(JSONparse(store)) = {}

\* a cascade from a hidden zero cell on a later move: it stops at the
\* numbered cells around the mines
C14_Witness ==
    /\ CellActionInGrid
    /\ loaded.moves >= 1
    /\ ClickedCell \notin Revealed(loaded)
    /\ at(loaded.board, ClickedCell) = 0
    /\ Cardinality(NewlyRevealed) >= 2
    /\ ~game.gameOver
    /\ RevealedMines(game) = {}

\* C15 (as amended): a cell action adds 0 or 1 to the moves of the state it
\* read, and exactly 1 on a hidden unflagged cell, however many cells it
\* reveals; the stored moves never decreases over actions that each read
\* what the action before stored, while an action that read an older state
\* may store a smaller count.
HiddenUnflaggedClick ==
    /\ CellActionInGrid
    /\ ClickedCell \notin Revealed(loaded)
    /\ ClickedCell \notin Flagged(loaded)

C15_MovesCountActionsFromRead ==
    /\ [](CellActionOnGame =>
            /\ game.moves - loaded.moves \in {0, 1}
            /\ HiddenUnflaggedClick => game.moves = loaded.moves + 1)
    /\ [][\A h \in Handlers :
            (MoveStepOf(h) /\ store # Absent /\ ReadCurrent(h)) =>
                /\ game'.moves - JSONparse(store).moves \in {0, 1}
                /\ resp'.put => JSONparse(store').moves = game'.moves]_vars

\* one click whose cascade reveals ten cells or more counts as one move
C15_Witness ==
    /\ HiddenUnflaggedClick
    /\ Cardinality(NewlyRevealed) >= 10
    /\ game.moves = loaded.moves + 1

\* C15 as stated: every cell action changes the stored moves of the game by
\* 0 or +1.
C15_MovesCountActions ==
    [][Rewrite =>
        JSONparse(store').moves - JSONparse(store).moves \in {0, 1}]_vars

\* C16: a click on a hidden flagged cell of a game in progress changes no
\* field of the game, and the text put is the text that was read.
FlaggedClick ==
    /\ CellActionInGrid
    /\ ClickedCell \in Flagged(loaded)
    /\ ClickedCell \notin Revealed(loaded)

C16_FlaggedClickIsNoOp ==
    [][\A h \in Handlers :
        (MoveStepOf(h) /\ FlaggedClick') =>
            /\ \A i \in 1..Len(GameKeys) :
                getProp(game', GameKeys[i]) = getProp(loaded', GameKeys[i])
            /\ resp' = Response("OK", TRUE, FALSE)
            /\ store' = JSONstringify(loaded')
            /\ store' = handlers[h].gameStr]_vars

\* a click on a cell flagged by an earlier action
C16_Witness ==
    /\ FlaggedClick
    /\ loaded.moves >= 2
    /\ game.moves = loaded.moves
    /\ store = JSONstringify(loaded)

\* C18: in every state reached from a new game every flagged cell is a mine,
\* so the two counters of the win check are equal.
C18_FlagsAreMines ==
    game # NoGame =>
        /\ Flagged(game) \subseteq MineCells(game)
        /\ totalFlags(game) = correctFlags(game)

\* the action that sets flags, with a flag already on the board
C18_Witness ==
    /\ CellActionOnGame
    /\ Flagged(loaded) # {}
    /\ Flagged(game) # Flagged(loaded)
    /\ totalFlags(game) = correctFlags(game)

\* C19: no state of play offers a chord that would hit a mine, neither the
\* state an action loads nor the state it leaves in progress; and a lost
\* game is always the result of a direct click on a hidden unflagged mine.
ChordWouldHit(g) ==
    \E p \in Revealed(g) :
        /\ at(g.board, p) > 0
        /\ FlagsAround(g, p) = at(g.board, p)
        /\ HiddenAround(g, p) \cap MineCells(g) # {}

C19_ChordHitUnreachable ==
    /\ InProgress(game) => ~ChordWouldHit(game)
    /\ CellActionOnGame => ~ChordWouldHit(loaded)
    /\ (CellActionOnGame /\ game.gameOver /\ ~game.won) => (DirectHit /\ ~ChordHit)
    /\ (game # NoGame /\ game.gameOver /\ ~game.won) => req.kind = "cell"

\* a game lost by a direct click while a chord was on offer: a revealed
\* numbered cell had all its mines flagged
C19_Witness ==
    /\ DirectHit
    /\ game.gameOver
    /\ ~game.won
    /\ \E p \in Revealed(loaded) :
        /\ at(loaded.board, p) > 0
        /\ FlagsAround(loaded, p) = at(loaded.board, p)

\* position of a handler's storage operation in the log, 0 when it has not
\* happened
logIndex(h, op) ==
    IF \E i \in 1..Len(log) : log[i].h = h /\ log[i].op = op
    THEN CHOOSE i \in 1..Len(log) : log[i].h = h /\ log[i].op = op
    ELSE 0

Did(h, op) == logIndex(h, op) > 0

Before(h1, op1, h2, op2) ==
    /\ Did(h1, op1)
    /\ Did(h2, op2)
    /\ logIndex(h1, op1) < logIndex(h2, op2)

\* the text a handler read or put
textOf(h, op) == log[logIndex(h, op)].text

LastOp == IF log = << >> THEN <<"", "">> ELSE <<log[Len(log)].h, log[Len(log)].op>>

\* both handlers have received their request and run to their end
AllDone == AllIdle /\ \A h \in Handlers : Did(h, "get")

\* both handlers read the same stored game before either wrote, and a put
\* first
Race(a, b) ==
    /\ a # b
    /\ Before(a, "get", a, "put") /\ Before(b, "get", a, "put")
    /\ Before(a, "put", b, "put")
    /\ textOf(a, "get") # Absent
    /\ textOf(b, "get") = textOf(a, "get")

\* the texts the handler's move can produce from the state it read
moveTexts(h) ==
    { JSONstringify(handleCell(textOf(h, "get"), log[logIndex(h, "get")].cell[1],
                               log[logIndex(h, "get")].cell[2], now).game) :
        now \in Times }

TextOver(text) == JSONparse(text).gameOver

\* C17 (as amended): when both handlers read the stored state before either
\* writes, the later put stores the later writer's move applied to the state
\* it read, whatever the earlier writer stored; that is the state finally
\* stored when neither move ends the game, and the store ends empty when a
\* delete is the last storage operation.
C17_LaterPutWins ==
    \A a \in Handlers, b \in Handlers :
        Race(a, b) =>
            /\ textOf(b, "put") \in moveTexts(b)
            /\ LastOp = <<b, "put">> => store = textOf(b, "put")
            /\ (AllDone /\ ~TextOver(textOf(a, "put")) /\ ~TextOver(textOf(b, "put"))) =>
                   store = textOf(b, "put")
            /\ LastOp[2] = "delete" => store = Absent

\* both moves reveal cells, and the cells only the earlier writer revealed
\* are hidden in the state finally stored
C17_Witness ==
    \E a \in Handlers, b \in Handlers :
        /\ Race(a, b)
        /\ AllDone
        /\ store = textOf(b, "put")
        /\ store # textOf(a, "put")
        /\ textOf(a, "put") # textOf(a, "get")
        /\ Revealed(JSONparse(textOf(a, "put"))) \ Revealed(JSONparse(store)) # {}
        /\ JSONparse(store).moves = 1

\* C17 as stated: once both handlers are done the store holds the later
\* writer's result.
C17_LastWriteWins ==
    \A a \in Handlers, b \in Handlers :
        (Race(a, b) /\ AllDone) => store = textOf(b, "put")

\* C20: a handler that read the game before another handler ended it, and
\* puts its own non-terminal result after that handler's delete, stores a
\* state with gameOver = false for a game that has ended and been evicted.
LatePut(a, b) ==
    /\ a # b
    /\ Before(b, "get", a, "put")
    /\ Before(a, "put", a, "delete")
    /\ Before(a, "delete", b, "put")
    /\ textOf(b, "get") # Absent

C20_EvictionNotAtomic ==
    \A a \in Handlers, b \in Handlers :
        (LatePut(a, b) /\ ~TextOver(textOf(b, "put"))) =>
            /\ TextOver(textOf(a, "put"))
            /\ ended
            /\ store # Absent
            /\ store = textOf(b, "put")
            /\ ~JSONparse(store).gameOver

\* the game was lost and evicted, and a game in progress is stored again
C20_Witness ==
    \E a \in Handlers, b \in Handlers :
        /\ LatePut(a, b)
        /\ AllDone
        /\ ended
        /\ store # Absent
        /\ ~JSONparse(store).gameOver
        /\ JSONparse(textOf(a, "put")).gameOver
        /\ ~JSONparse(textOf(a, "put")).won

====
